---- MODULE Spec2Model ----
(***************************************************************************)
(* Model of custom_components/opi_gpio/cover.py: the OPiGPIOCover entity,  *)
(* its command handlers (open_cover, close_cover, stop_cover,              *)
(* set_cover_position), the relay pulse _trigger, and the self-            *)
(* rescheduling threading.Timer countdown (_update_position / _counter /   *)
(* _done).                                                                 *)
(*                                                                         *)
(* Threads: thread 0 is the caller of the command handlers; thread t > 0   *)
(* is the thread of threading.Timer object t, which runs _counter when the *)
(* timer fires.  Every step touches shared state at most once, so the      *)
(* interleavings of the model are those of the unsynchronised code.        *)
(*                                                                         *)
(* Time: one Tick is one second.  sleep(d) lasts d Ticks, a Timer(1.0)     *)
(* fires one Tick after start().  Code that neither sleeps nor waits takes *)
(* no time: Tick is enabled only when every thread is asleep or idle and   *)
(* nothing that is due is left.  Events due in the same second interleave  *)
(* in every order.                                                         *)
(***************************************************************************)
EXTENDS Integers, FiniteSets, Sequences, TLC

\* ------------------------------------------------------------------ bounds

\* number of threading.Timer objects alive at once (model bound)
MaxTimers == 4
\* number of commands the caller issues in one run (model bound)
MaxCmds == 2
\* configured close_duration / open_duration values (cv.positive_int admits 0)
Durations == {0, 4, 5}
\* ATTR_POSITION values passed to set_cover_position
Targets == {0, 30}
\* kwargs[ATTR_POSITION] outside [0, 100], as passed by a caller that does
\* not validate it
OutOfRange == {-10, 110}

\* ------------------------------------------------------- program constants

DEFAULT_RELAY_TIME == 1
DEFAULT_INTERMEDIATE_TIME == 5
DEFAULT_INVERT_RELAY == FALSE
DEFAULT_INTERMEDIATE_MODE == FALSE
DEFAULT_CLOSE_DURATION == 5
DEFAULT_OPEN_DURATION == 5
STATE_CLOSED == "closed"
STATE_CLOSING == "closing"
STATE_OPEN == "open"
STATE_OPENING == "opening"
CoverStates == {STATE_CLOSED, STATE_CLOSING, STATE_OPEN, STATE_OPENING}
Pins == {"close_pin", "stop_pin", "open_pin"}

VARIABLES
    invert_relay,       \* self._invert_relay
    intermediate_mode,  \* self._intermediate_mode
    close_duration,     \* self._close_duration
    open_duration,      \* self._open_duration
    last_state,         \* what async_get_last_state() returns at startup
    added,              \* async_added_to_hass has run
    state,              \* self._state
    position,           \* self._attr_current_cover_position
    timer,              \* self._timer: None, Stale or a Timer object id
    pins,               \* level last written to each output pin
    tim,                \* the threading.Timer objects
    thr,                \* the threads: program counter and locals
    last,               \* history: the latest command issued by the caller
    elapsed             \* history: seconds since the latest countdown began

config == <<invert_relay, intermediate_mode, close_duration, open_duration, last_state>>
vars == <<invert_relay, intermediate_mode, close_duration, open_duration, last_state,
          added, state, position, timer, pins, tim, thr, last, elapsed>>

TimerIds == 1..MaxTimers
\* self._timer is None
None == 0
\* self._timer references a Timer that has fired or was cancelled after
\* start(): cancel() on it does nothing, start() on it raises RuntimeError
Stale == 0 - 1
ThreadIds == 0..MaxTimers

\* ------------------------------------------------------------ pure helpers

Abs(x) == IF x < 0 THEN -x ELSE x

\* Python int() of the quotient x / y: truncation toward zero
Trunc(x, y) ==
    IF (x >= 0) = (y > 0) THEN Abs(x) \div Abs(y) ELSE -(Abs(x) \div Abs(y))

Sign(x) == IF x < 0 THEN -1 ELSE IF x > 0 THEN 1 ELSE 0

\* The closure of _done: duration = total / step seconds (open_cover and
\* close_cover pass an int, step = 1; set_cover_position passes the float
\* delta / configured duration, step = that duration), is_open, need_stop.
\* The remaining count i of _counter is kept as the numerator n = i * step.
NoMot == [total |-> 0, step |-> 1, is_open |-> FALSE, need_stop |-> FALSE]

\* <<n, total, step>> for which the double arithmetic of
\* int(i / duration * 100) gives one less in magnitude than the exact
\* quotient (every case reachable with Durations and Targets).
FloatSlip ==
    { <<-4, 16, 5>>, <<-3, 2, 5>>, <<-2, 8, 5>>, <<-1, 4, 5>>,
      <<116, 200, 4>>, <<116, 400, 4>>, <<145, 500, 5>>, <<228, 400, 4>>,
      <<232, 400, 4>>, <<285, 500, 5>>, <<290, 500, 5>> }

\* rate = int(i / duration * 100) if duration != 0 else 100
Rate(n, mot) ==
    IF mot.total # 0
    THEN LET q == Trunc(100 * n, mot.total)
         IN  IF <<n, mot.total, mot.step>> \in FloatSlip THEN q - Sign(q) ELSE q
    ELSE 100

\* variant of DonePosition that ignores is_open (the position always counts down)
DonePosition_no_is_open(n, mot) == Rate(n, mot)

\* self._attr_current_cover_position = rate if not is_open else (100 - rate)
DonePosition(n, mot) ==
    IF ~mot.is_open THEN Rate(n, mot) ELSE 100 - Rate(n, mot)

\* 1 if self._invert_relay else 0
IdleLevel == IF invert_relay THEN 1 ELSE 0
\* 0 if self._invert_relay else 1
ActiveLevel == IF invert_relay THEN 0 ELSE 1
\* variant of Release that leaves the level as driven
Release_unchanged(val) == val

\* 0 if val == 1 else 1
Release(val) == IF val = 1 THEN 0 ELSE 1

\* variant of is_closed that holds for every position short of fully open
is_closed_below_open == position # 100

\* self.is_closed
is_closed == position = 0

\* --------------------------------------------------------- threads, timers

Dead == [pc |-> "dead", n |-> 0, mot |-> NoMot, arg |-> 0,
         pin |-> "none", val |-> 0, left |-> 0, ret |-> "none"]
Idle == [Dead EXCEPT !.pc = "idle"]
Free == [st |-> "free", cancelled |-> FALSE, left |-> 0, n |-> 0, mot |-> NoMot]

\* history of the latest command: its number, name and argument, the position
\* and state it found (open_cover and close_cover: at their read of
\* is_closed), whether the entity was at rest or in mid-motion when it was
\* issued, whether it has returned, and the exception it raised
NoCmd == [n |-> 0, op |-> "none", arg |-> 0, pos0 |-> 0, st0 |-> "none",
          rest |-> TRUE, mid |-> FALSE, ret |-> TRUE, err |-> "none"]

Resting(t) == thr[t].pc \in {"idle", "dead"}
Sleeping(t) == thr[t].pc = "trig_lo" /\ thr[t].left > 0
Pending(x) == tim[x].st = "pending"
NoTimerPending == \A x \in TimerIds : ~Pending(x)
\* nothing runs and nothing is scheduled
Quiescent ==
    /\ \A t \in ThreadIds : Resting(t)
    /\ \A x \in TimerIds : tim[x].st = "free"
\* a countdown is under way, its completion tick _done(0) still to come
MidMotion ==
    /\ \A t \in ThreadIds : Resting(t)
    /\ \E x \in TimerIds : Pending(x) /\ tim[x].n > 0
    /\ elapsed > 0

\* history: the latest command reads the position now
Seen == [last EXCEPT !.pos0 = position, !.st0 = state]

\* the smallest unused Timer object
FreeIds == {x \in TimerIds : tim[x].st = "free"}
NewId == CHOOSE x \in FreeIds : \A y \in FreeIds : x <= y

\* an unstarted Timer that self._timer no longer references is garbage
Drop(tm, ref) ==
    IF ref \in TimerIds /\ tm[ref].st = "new" THEN [tm EXCEPT ![ref] = Free] ELSE tm

\* thread t leaves its outermost call, normally (e = "none") or by exception e
Return(t, e, tm) ==
    /\ thr' = [thr EXCEPT ![t] = IF t = 0 THEN Idle ELSE Dead]
    /\ tim' = IF t = 0 THEN tm ELSE [tm EXCEPT ![t] = Free]
    /\ last' = IF t = 0 THEN [last EXCEPT !.ret = TRUE, !.err = e] ELSE last

\* thread t enters _trigger(pin, val, delay) and continues at ret afterwards
EnterTrigger(t, pin, val, delay, ret, n, mot) ==
    thr' = [thr EXCEPT ![t] = [pc |-> "trig_hi", n |-> n, mot |-> mot, arg |-> 0,
                               pin |-> pin, val |-> val, left |-> delay, ret |-> ret]]

\* ------------------------------------------------------------------- Init

\* The configurations explored: the platform schema's defaults, with the
\* relay options, the two durations, or the restored state set otherwise
\* (one of the three at a time).
Configs ==
    LET relay == DEFAULT_INVERT_RELAY
        inter == DEFAULT_INTERMEDIATE_MODE
        close == DEFAULT_CLOSE_DURATION
        open == DEFAULT_OPEN_DURATION
    IN  { c \in [invert_relay : BOOLEAN, intermediate_mode : BOOLEAN,
                 close_duration : Durations, open_duration : Durations,
                 last_state : CoverStates \cup {"none"}] :
            \/ /\ c.close_duration = close /\ c.open_duration = open
               /\ c.last_state = "none"
            \/ /\ c.invert_relay = relay /\ c.intermediate_mode = inter
               /\ c.last_state = "none"
            \/ /\ c.invert_relay = relay /\ c.intermediate_mode = inter
               /\ c.close_duration = close /\ c.open_duration = open }

\* the entity after __init__
Constructed(c) ==
    /\ invert_relay = c.invert_relay
    /\ intermediate_mode = c.intermediate_mode
    /\ close_duration = c.close_duration
    /\ open_duration = c.open_duration
    /\ last_state = c.last_state
    /\ added = FALSE
    /\ state = STATE_CLOSED
    /\ position = 0
    /\ timer = None
    /\ pins = [p \in Pins |-> IdleLevel]
    /\ tim = [x \in TimerIds |-> Free]
    /\ thr = [t \in ThreadIds |-> IF t = 0 THEN Idle ELSE Dead]
    /\ last = NoCmd
    /\ elapsed = 0

Init == \E c \in Configs : Constructed(c)

\* async_added_to_hass: if last_state is not None: self._state = last_state.state
async_added_to_hass ==
    /\ ~added
    /\ added' = TRUE
    /\ state' = IF last_state # "none" THEN last_state ELSE state
    /\ UNCHANGED <<config, position, timer, pins, tim, thr, last, elapsed>>

\* ----------------------------------------------------- the caller's thread

\* the caller invokes a command handler; set_cover_position reads
\* kwargs[ATTR_POSITION] (arg)
Call(op, arg) ==
    /\ added
    /\ thr[0].pc = "idle"
    /\ last.n < MaxCmds
    /\ last' = [n |-> last.n + 1, op |-> op, arg |-> arg, pos0 |-> position,
                st0 |-> state, rest |-> Quiescent, mid |-> MidMotion, ret |-> FALSE, err |-> "none"]
    /\ \/ /\ op \in {"open_cover", "close_cover", "set_cover_position"}
          /\ thr' = [thr EXCEPT ![0] = [Idle EXCEPT !.pc = op, !.arg = arg]]
       \/ /\ op = "stop_cover"
          /\ EnterTrigger(0, "stop_pin", ActiveLevel, DEFAULT_RELAY_TIME, "ret", 0, NoMot)
    /\ UNCHANGED <<config, added, state, position, timer, pins, tim, elapsed>>

\* open_cover: if self.is_closed
open_cover_check ==
    /\ thr[0].pc = "open_cover"
    /\ IF is_closed
       THEN /\ thr' = [thr EXCEPT ![0].pc = "open_state"]
            /\ last' = Seen
       ELSE /\ thr' = [thr EXCEPT ![0] = Idle]
            /\ last' = [Seen EXCEPT !.ret = TRUE]
    /\ UNCHANGED tim
    /\ UNCHANGED <<config, added, state, position, timer, pins, elapsed>>

\* open_cover: self._state = STATE_OPENING, then the call of _trigger
open_cover_state ==
    /\ thr[0].pc = "open_state"
    /\ state' = STATE_OPENING
    /\ IF intermediate_mode
       THEN EnterTrigger(0, "stop_pin", ActiveLevel, DEFAULT_INTERMEDIATE_TIME, "up",
                         open_duration,
                         [total |-> open_duration, step |-> 1,
                          is_open |-> TRUE, need_stop |-> FALSE])
       ELSE EnterTrigger(0, "open_pin", ActiveLevel, DEFAULT_RELAY_TIME, "up",
                         open_duration,
                         [total |-> open_duration, step |-> 1,
                          is_open |-> TRUE, need_stop |-> FALSE])
    /\ UNCHANGED <<config, added, position, timer, pins, tim, last, elapsed>>

\* close_cover: if not self.is_closed
close_cover_check ==
    /\ thr[0].pc = "close_cover"
    /\ IF ~is_closed
       THEN /\ thr' = [thr EXCEPT ![0].pc = "close_state"]
            /\ last' = Seen
       ELSE /\ thr' = [thr EXCEPT ![0] = Idle]
            /\ last' = [Seen EXCEPT !.ret = TRUE]
    /\ UNCHANGED tim
    /\ UNCHANGED <<config, added, state, position, timer, pins, elapsed>>

\* close_cover: self._state = STATE_CLOSING, then the call of _trigger
close_cover_state ==
    /\ thr[0].pc = "close_state"
    /\ state' = STATE_CLOSING
    /\ EnterTrigger(0, "close_pin", ActiveLevel, DEFAULT_RELAY_TIME, "up",
                    close_duration,
                    [total |-> close_duration, step |-> 1,
                     is_open |-> FALSE, need_stop |-> FALSE])
    /\ UNCHANGED <<config, added, position, timer, pins, tim, last, elapsed>>

\* set_cover_position: is_open = position > self.current_cover_position
set_cover_position_cmp ==
    /\ thr[0].pc = "set_cover_position"
    /\ thr' = [thr EXCEPT ![0].pc = "sp_duration",
                          ![0].mot = [NoMot EXCEPT !.is_open = (thr[0].arg > position)]]
    /\ UNCHANGED <<config, added, state, position, timer, pins, tim, last, elapsed>>

\* set_cover_position: the second read of current_cover_position, the
\* division by the configured duration, and if duration != 0
set_cover_position_duration ==
    /\ thr[0].pc = "sp_duration"
    /\ LET is_open == thr[0].mot.is_open
           dur == IF is_open THEN open_duration ELSE close_duration
           num == IF is_open THEN thr[0].arg - position ELSE position - thr[0].arg
       IN  IF dur = 0
           THEN Return(0, "ZeroDivisionError", tim)
           ELSE IF num = 0
           THEN Return(0, "none", tim)
           ELSE /\ EnterTrigger(0, IF is_open THEN "open_pin" ELSE "close_pin",
                                ActiveLevel, DEFAULT_RELAY_TIME, "up", num,
                                [total |-> num, step |-> dur,
                                 is_open |-> is_open, need_stop |-> TRUE])
                /\ UNCHANGED <<tim, last>>
    /\ UNCHANGED <<config, added, state, position, timer, pins, elapsed>>

\* _update_position: if self._timer is not None: self._timer.cancel()
update_position_cancel ==
    /\ thr[0].pc = "up"
    /\ IF timer = None
       THEN /\ thr' = [thr EXCEPT ![0].pc = "cnt"]
            /\ UNCHANGED <<timer, tim>>
       ELSE /\ thr' = [thr EXCEPT ![0].pc = "up_none"]
            /\ IF timer \in TimerIds /\ tim[timer].st = "pending"
               THEN tim' = [tim EXCEPT ![timer] = Free] /\ timer' = Stale
               ELSE IF timer \in TimerIds /\ tim[timer].st = "new"
               THEN tim' = [tim EXCEPT ![timer].cancelled = TRUE] /\ timer' = timer
               ELSE UNCHANGED <<timer, tim>>
    /\ UNCHANGED <<config, added, state, position, pins, last, elapsed>>

\* _update_position: self._timer = None
update_position_none ==
    /\ thr[0].pc = "up_none"
    /\ timer' = None
    /\ tim' = Drop(tim, timer)
    /\ thr' = [thr EXCEPT ![0].pc = "cnt"]
    /\ UNCHANGED <<config, added, state, position, pins, last, elapsed>>

\* ------------------------------------------------ code run by every thread

\* _trigger: write_output(pin, val), then sleep(delay) begins
trigger_on(t) ==
    /\ thr[t].pc = "trig_hi"
    /\ pins' = [pins EXCEPT ![thr[t].pin] = thr[t].val]
    /\ thr' = [thr EXCEPT ![t].pc = "trig_lo"]
    /\ UNCHANGED <<config, added, state, position, timer, tim, last, elapsed>>

\* _trigger: sleep(delay) is over, write_output(pin, 0 if val == 1 else 1);
\* stop_cover called by the caller returns here
trigger_off(t) ==
    /\ thr[t].pc = "trig_lo"
    /\ thr[t].left = 0
    /\ pins' = [pins EXCEPT ![thr[t].pin] = Release(thr[t].val)]
    /\ IF thr[t].ret = "ret"
       THEN Return(t, "none", tim)
       ELSE /\ thr' = [thr EXCEPT ![t].pc = thr[t].ret, ![t].pin = "none",
                                  ![t].val = 0, ![t].ret = "none"]
            /\ UNCHANGED <<tim, last>>
    /\ UNCHANGED <<config, added, state, position, timer, elapsed>>

\* _counter: if i > 0: _i = i - 1; self._timer = Timer(1.0, self._counter,
\* (_i, callback)); else: callback(0) is called
counter(t) ==
    /\ thr[t].pc = "cnt"
    /\ IF thr[t].n > 0
       THEN /\ FreeIds # {}
            /\ LET x == NewId
                   m == thr[t].n - thr[t].mot.step
               IN  /\ tim' = [Drop(tim, timer) EXCEPT
                                 ![x] = [st |-> "new", cancelled |-> FALSE, left |-> 0,
                                         n |-> m, mot |-> thr[t].mot]]
                   /\ timer' = x
                   /\ thr' = [thr EXCEPT ![t].pc = "cnt_start", ![t].n = m]
       ELSE /\ thr' = [thr EXCEPT ![t].pc = "cb", ![t].n = 0]
            /\ UNCHANGED <<timer, tim>>
    /\ elapsed' = IF t = 0 THEN 0 ELSE elapsed
    /\ UNCHANGED <<config, added, state, position, pins, last>>

\* _counter: self._timer.start() on whatever self._timer references now
counter_start(t) ==
    /\ thr[t].pc = "cnt_start"
    /\ IF timer = None
       THEN Return(t, "AttributeError", tim) /\ UNCHANGED timer
       ELSE IF timer = Stale \/ tim[timer].st # "new"
       THEN Return(t, "RuntimeError", tim) /\ UNCHANGED timer
       ELSE /\ IF tim[timer].cancelled
               THEN tim' = [tim EXCEPT ![timer] = Free] /\ timer' = Stale
               ELSE /\ tim' = [tim EXCEPT ![timer].st = "pending", ![timer].left = 1]
                    /\ UNCHANGED timer
            /\ thr' = [thr EXCEPT ![t].pc = "cb"]
            /\ UNCHANGED last
    /\ UNCHANGED <<config, added, state, position, pins, elapsed>>

\* variant of done_position in which _done never calls stop_cover
done_position_no_stop(t) ==
    /\ thr[t].pc = "cb"
    /\ position' = DonePosition(thr[t].n, thr[t].mot)
    /\ IF thr[t].n = 0
       THEN /\ thr' = [thr EXCEPT ![t].pc = "fin_closed"]
            /\ UNCHANGED <<tim, last>>
       ELSE Return(t, "none", tim)
    /\ UNCHANGED <<config, added, state, timer, pins, elapsed>>

\* _done: the position is written; if i == 0 and need_stop, stop_cover is called
done_position(t) ==
    /\ thr[t].pc = "cb"
    /\ position' = DonePosition(thr[t].n, thr[t].mot)
    /\ IF thr[t].n = 0
       THEN /\ IF thr[t].mot.need_stop
               THEN EnterTrigger(t, "stop_pin", ActiveLevel, DEFAULT_RELAY_TIME,
                                 "fin_closed", 0, thr[t].mot)
               ELSE thr' = [thr EXCEPT ![t].pc = "fin_closed"]
            /\ UNCHANGED <<tim, last>>
       ELSE Return(t, "none", tim)
    /\ UNCHANGED <<config, added, state, timer, pins, elapsed>>

\* variant of done_closed that never writes STATE_CLOSED
done_closed_skipped(t) ==
    /\ thr[t].pc = "fin_closed"
    /\ thr' = [thr EXCEPT ![t].pc = "fin_open"]
    /\ UNCHANGED <<config, added, state, position, timer, pins, tim, last, elapsed>>

\* _done: if self._attr_current_cover_position == 0: self._state = STATE_CLOSED
done_closed(t) ==
    /\ thr[t].pc = "fin_closed"
    /\ state' = IF position = 0 THEN STATE_CLOSED ELSE state
    /\ thr' = [thr EXCEPT ![t].pc = "fin_open"]
    /\ UNCHANGED <<config, added, position, timer, pins, tim, last, elapsed>>

\* _done: if self._attr_current_cover_position == 100: self._state = STATE_OPEN
done_open(t) ==
    /\ thr[t].pc = "fin_open"
    /\ state' = IF position = 100 THEN STATE_OPEN ELSE state
    /\ Return(t, "none", tim)
    /\ UNCHANGED <<config, added, position, timer, pins, elapsed>>

\* ------------------------------------------------------- timers and time

\* Timer.run: the interval is over and the timer was not cancelled
Fire(x) ==
    /\ tim[x].st = "pending"
    /\ tim[x].left = 0
    /\ tim' = [tim EXCEPT ![x].st = "fired"]
    /\ thr' = [thr EXCEPT ![x] = [Dead EXCEPT !.pc = "cnt", !.n = tim[x].n,
                                              !.mot = tim[x].mot]]
    /\ timer' = IF timer = x THEN Stale ELSE timer
    /\ UNCHANGED <<config, added, state, position, pins, last, elapsed>>

\* one second passes
Tick ==
    /\ \A t \in ThreadIds : Resting(t) \/ Sleeping(t)
    /\ \A x \in TimerIds : Pending(x) => tim[x].left > 0
    /\ \/ \E t \in ThreadIds : Sleeping(t)
       \/ \E x \in TimerIds : Pending(x)
    /\ thr' = [t \in ThreadIds |->
                 IF Sleeping(t) THEN [thr[t] EXCEPT !.left = @ - 1] ELSE thr[t]]
    /\ tim' = [x \in TimerIds |->
                 IF Pending(x) THEN [tim[x] EXCEPT !.left = @ - 1] ELSE tim[x]]
    /\ elapsed' = elapsed + 1
    /\ UNCHANGED <<config, added, state, position, timer, pins, last>>

Next ==
    \/ async_added_to_hass
    \/ \E op \in {"open_cover", "close_cover", "stop_cover"} : Call(op, 0)
    \/ \E p \in Targets : Call("set_cover_position", p)
    \/ open_cover_check
    \/ open_cover_state
    \/ close_cover_check
    \/ close_cover_state
    \/ set_cover_position_cmp
    \/ set_cover_position_duration
    \/ update_position_cancel
    \/ update_position_none
    \/ \E t \in ThreadIds : trigger_on(t)
    \/ \E t \in ThreadIds : trigger_off(t)
    \/ \E t \in ThreadIds : counter(t)
    \/ \E t \in ThreadIds : counter_start(t)
    \/ \E t \in ThreadIds : done_position(t)
    \/ \E t \in ThreadIds : done_closed(t)
    \/ \E t \in ThreadIds : done_open(t)
    \/ \E x \in TimerIds : Fire(x)
    \/ Tick

Spec == Init /\ [][Next]_vars

\* The caller issues open_cover and close_cover only.  Every started thread
\* keeps running, every due timer fires and time passes (the interpreter
\* schedules every thread; the caller is free to issue nothing).
ThreadStep(t) ==
    \/ t = 0 /\ (open_cover_check \/ open_cover_state \/ close_cover_check
                 \/ close_cover_state \/ update_position_cancel
                 \/ update_position_none)
    \/ trigger_on(t) \/ trigger_off(t) \/ counter(t) \/ counter_start(t)
    \/ done_position(t) \/ done_closed(t) \/ done_open(t)

OpenCloseNext ==
    \/ async_added_to_hass
    \/ \E op \in {"open_cover", "close_cover"} : Call(op, 0)
    \/ open_cover_check
    \/ open_cover_state
    \/ close_cover_check
    \/ close_cover_state
    \/ update_position_cancel
    \/ update_position_none
    \/ \E t \in ThreadIds : trigger_on(t)
    \/ \E t \in ThreadIds : trigger_off(t)
    \/ \E t \in ThreadIds : counter(t)
    \/ \E t \in ThreadIds : counter_start(t)
    \/ \E t \in ThreadIds : done_position(t)
    \/ \E t \in ThreadIds : done_closed(t)
    \/ \E t \in ThreadIds : done_open(t)
    \/ \E x \in TimerIds : Fire(x)
    \/ Tick

OpenCloseSpec ==
    /\ Init
    /\ [][OpenCloseNext]_vars
    /\ \A t \in ThreadIds : WF_vars(ThreadStep(t))
    /\ \A x \in TimerIds : WF_vars(Fire(x))
    /\ WF_vars(Tick)

\* The caller's first command is set_cover_position with a target outside
\* [0, 100]; nothing else is issued.  (self._timer is None then, so
\* _update_position has nothing to cancel.)
OutOfRangeNext ==
    \/ async_added_to_hass
    \/ \E p \in OutOfRange : last.n = 0 /\ Call("set_cover_position", p)
    \/ set_cover_position_cmp
    \/ set_cover_position_duration
    \/ update_position_cancel
    \/ \E t \in ThreadIds : trigger_on(t)
    \/ \E t \in ThreadIds : trigger_off(t)
    \/ \E t \in ThreadIds : counter(t)
    \/ \E t \in ThreadIds : counter_start(t)
    \/ \E t \in ThreadIds : done_position(t)
    \/ \E t \in ThreadIds : done_closed(t)
    \/ \E t \in ThreadIds : done_open(t)
    \/ \E x \in TimerIds : Fire(x)
    \/ Tick

OutOfRangeSpec == Init /\ [][OutOfRangeNext]_vars

TypeOK ==
    /\ state \in CoverStates
    /\ position \in Int
    /\ timer \in {None, Stale} \cup TimerIds
    /\ pins \in [Pins -> {0, 1}]
    /\ \A x \in TimerIds : tim[x].st \in {"free", "new", "pending", "fired"}
    /\ timer \in TimerIds => tim[timer].st \in {"new", "pending"}
    /\ \A x \in TimerIds : (tim[x].st = "fired") = (thr[x].pc # "dead")
    /\ \A x \in TimerIds : tim[x].st = "new" => timer = x

\* ----------------------------------------------------------------- claims

AllResting == \A t \in ThreadIds : Resting(t)
PendingTimers == {x \in TimerIds : Pending(x)}

\* C1: once stop() has returned from a call made mid-motion, no timer of the
\* motion stays pending, the position lies strictly between 0 and 100, and
\* no later step changes it (until the caller issues another command).
C1_StopFreezesPosition ==
    [][ (last.op = "stop_cover" /\ last.mid /\ last.ret /\ last' = last)
          => /\ NoTimerPending
             /\ 0 < position /\ position < 100
             /\ position' = position ]_vars

\* C2: set_position(p) issued at rest at position 0 completes with the
\* position within 100 / open_duration of p (durations > 0).
C2_SetPositionReachesTarget ==
    (/\ last.op = "set_cover_position" /\ last.rest /\ last.pos0 = 0
     /\ last.ret /\ last.err = "none" /\ Quiescent /\ open_duration > 0)
        => Abs(position - last.arg) * open_duration <= 100

\* C3: for open_duration > 0, open() that finds the position 0 and is followed
\* by no other command leads to position 100, state Open and nothing pending.
C3_OpenCompletes ==
    \A k \in 1..MaxCmds :
        (/\ last.n = k /\ last.op = "open_cover" /\ thr[0].pc # "open_cover"
         /\ last.pos0 = 0 /\ open_duration > 0)
            ~> (last.n # k \/ (position = 100 /\ state = STATE_OPEN /\ Quiescent))

\* C3 witness: an open() issued at position 0 has run to completion
C3_Witness ==
    /\ last.op = "open_cover" /\ last.pos0 = 0 /\ last.ret /\ open_duration > 0
    /\ position = 100 /\ state = STATE_OPEN /\ Quiescent /\ elapsed >= open_duration

\* C4: for close_duration > 0, close() that finds the cover Open at position
\* 100 and is followed by no other command leads to position 0, state Closed
\* and nothing pending.
C4_CloseCompletes ==
    \A k \in 1..MaxCmds :
        (/\ last.n = k /\ last.op = "close_cover" /\ thr[0].pc # "close_cover"
         /\ last.pos0 = 100
         /\ last.st0 = STATE_OPEN /\ close_duration > 0)
            ~> (last.n # k \/ (position = 0 /\ state = STATE_CLOSED /\ Quiescent))

\* C4 witness: a close() issued on the open cover has run to completion
C4_Witness ==
    /\ last.op = "close_cover" /\ last.pos0 = 100 /\ last.st0 = STATE_OPEN
    /\ last.ret /\ close_duration > 0
    /\ position = 0 /\ state = STATE_CLOSED /\ Quiescent /\ elapsed >= close_duration

\* C5: the current position is an integer in [0, 100] in every reachable state.
C5_PositionInRange == position \in 0..100

\* C6: at most one timer is pending at any time.
C6_AtMostOneTimer == Cardinality(PendingTimers) <= 1

\* C7: open() that finds the position different from 0 returns at once and
\* leaves the pins, the state, the position and the timers as they were.
C7_OpenRejectedIsNoOp ==
    [][ (thr[0].pc = "open_cover" /\ position # 0 /\ thr'[0] # thr[0])
          => /\ thr'[0].pc = "idle"
             /\ UNCHANGED <<state, position, timer, pins, tim>> ]_vars

\* C7 witness: open() was called on a moving, partially open cover and returned
C7_Witness ==
    /\ last.op = "open_cover" /\ last.ret /\ last.mid
    /\ last.pos0 \in 1..99 /\ position \in 1..99
    /\ ~NoTimerPending

\* C8: with open_duration = 0, open() issued at position 0 returns with
\* position 100 and state Open, and no timer scheduled.
C8_ZeroDurationOpen ==
    (/\ open_duration = 0 /\ last.op = "open_cover" /\ last.rest
     /\ last.pos0 = 0 /\ last.ret)
        => position = 100 /\ state = STATE_OPEN /\ NoTimerPending

\* C9: with close_duration = 5 and the cover open at 100, k seconds after the
\* countdown of close() began the position is 100 - k / 5 * 100 (60 after 2
\* seconds), and after 5 seconds the state is Closed.
C9_CloseProgress ==
    (/\ close_duration = 5 /\ last.op = "close_cover" /\ last.rest
     /\ last.pos0 = 100 /\ last.ret /\ AllResting /\ elapsed <= 5)
        => /\ position = 100 - 20 * elapsed
           /\ elapsed = 5 => state = STATE_CLOSED

\* C10: state Open implies position 100 and state Closed implies position 0
\* (from the moment the entity has been added).
C10_StateMatchesPosition ==
    added => /\ state = STATE_OPEN => position = 100
             /\ state = STATE_CLOSED => position = 0

\* C11: whenever no command and no callback is executing, state Opening or
\* Closing implies that a motion timer is pending.
C11_MovingHasTimer ==
    (AllResting /\ state \in {STATE_OPENING, STATE_CLOSING}) => ~NoTimerPending

\* C12: set_position with a target outside [0, 100], issued at rest, raises
\* an error to the caller, drives no relay pin, starts no timer and leaves
\* state and position unchanged.
C12_OutOfRangeRejected ==
    (last.op = "set_cover_position" /\ last.arg \notin 0..100 /\ last.rest)
        => /\ \A p \in Pins : pins[p] = IdleLevel
           /\ NoTimerPending
           /\ position = last.pos0 /\ state = last.st0
           /\ last.ret => last.err # "none"

\* C13: no command ends in an arithmetic fault, whatever the configured
\* durations (0 included).
C13_NoArithmeticFault == last.err # "ZeroDivisionError"

\* C14: in a motion of total_ticks >= 1 started by open() or close() at rest,
\* when the callback is about to run with remaining == 0 the timer is done:
\* no timer is pending (so no second callback invocation can follow).
C14_FinalTickOnce ==
    (/\ last.op \in {"open_cover", "close_cover"} /\ last.rest
     /\ \E t \in ThreadIds : /\ thr[t].pc = "cb" /\ thr[t].n = 0
                             /\ thr[t].mot.total >= 1)
        => NoTimerPending

\* C15: once close() has been accepted while a motion was in flight and has
\* gone past the cancel() of _update_position, no timer thread is about to
\* run the callback of another motion (one whose closure differs from the
\* one close() passes).
C15_SupersededSilent ==
    LET closing == [total |-> close_duration, step |-> 1,
                    is_open |-> FALSE, need_stop |-> FALSE]
    IN  (/\ last.op = "close_cover" /\ last.pos0 # 0 /\ ~last.rest
         /\ \/ last.ret
            \/ thr[0].pc \in {"up_none", "cnt", "cnt_start", "cb",
                               "fin_closed", "fin_open"})
            => \A t \in TimerIds : thr[t].pc = "cb" => thr[t].mot = closing

\* C16: in the motion of a command issued at rest, every callback of an
\* opening motion leaves the position greater than or equal to its previous
\* value, every callback of a closing motion less than or equal to it.
C16_MonotonicMotion ==
    [][ \A t \in ThreadIds :
          (last.rest /\ thr[t].pc = "cb" /\ thr'[t].pc # "cb")
              => IF thr[t].mot.is_open THEN position' >= position
                                       ELSE position' <= position ]_vars

\* C17: after close() has found the position p with 0 < p < 100, no callback
\* of the close motion writes a position above p.
C17_CloseFromPartial ==
    [][ \A t \in ThreadIds :
          (/\ last.op = "close_cover" /\ last.pos0 \in 1..99
           /\ thr[t].pc = "cb" /\ thr'[t].pc # "cb"
           /\ ~thr[t].mot.is_open /\ ~thr[t].mot.need_stop)
              => position' <= last.pos0 ]_vars

\* C18: a motion started by set_position carries need_stop and one started by
\* open() or close() does not; the callback that runs with remaining == 0 and
\* need_stop calls stop_cover (a pulse on the stop pin); and nothing else
\* starts a pulse on the stop pin or changes its level, except the caller's
\* own stop() and open() in intermediate mode.
C18_StopPulseOnCompletion ==
    [][ /\ (thr[0].pc = "sp_duration" /\ thr'[0].pc = "trig_hi")
              => thr'[0].mot.need_stop /\ thr'[0].pin # "stop_pin"
        /\ (thr[0].pc \in {"open_state", "close_state"} /\ thr'[0] # thr[0])
              => /\ ~thr'[0].mot.need_stop
                 /\ ~intermediate_mode => thr'[0].pin # "stop_pin"
        /\ \A t \in ThreadIds :
              /\ (/\ thr[t].pc = "cb" /\ thr'[t] # thr[t]
                  /\ thr[t].n = 0 /\ thr[t].mot.need_stop)
                    => thr'[t].pc = "trig_hi" /\ thr'[t].pin = "stop_pin"
              /\ (thr'[t].pin = "stop_pin" /\ thr[t].pin # "stop_pin")
                    => \/ thr[t].pc = "cb" /\ thr[t].n = 0 /\ thr[t].mot.need_stop
                       \/ t = 0 /\ thr[t].pc = "idle" /\ last'.op = "stop_cover"
                       \/ t = 0 /\ thr[t].pc = "open_state" /\ intermediate_mode
        /\ pins'["stop_pin"] # pins["stop_pin"]
              => \E t \in ThreadIds : thr[t].pin = "stop_pin" ]_vars

\* C18 witness: the completion tick of a set_position motion started at rest
\* is pulsing the stop relay from its timer thread
C18_Witness ==
    /\ last.op = "set_cover_position" /\ last.rest /\ last.ret
    /\ \E t \in TimerIds : /\ thr[t].pc = "trig_lo" /\ thr[t].pin = "stop_pin"
                            /\ thr[t].mot.need_stop
    /\ pins["stop_pin"] = ActiveLevel

\* C19: every pin on which no pulse is in flight is at its idle level (from
\* construction on, for both values of invert_relay, also after overlapping
\* pulses); every pulse drives the active level and releases to the idle one.
C19_PinsIdleOutsidePulses ==
    /\ \A p \in Pins :
          (\A t \in ThreadIds : thr[t].pin # p) => pins[p] = IdleLevel
    /\ \A t \in ThreadIds :
          thr[t].pin \in Pins
              => thr[t].val = ActiveLevel /\ Release(thr[t].val) = IdleLevel

\* C19 witness: two stop pulses from different threads overlap, and one more
\* pin is back at idle
C19_Witness ==
    /\ \E t1, t2 \in ThreadIds :
          /\ t1 # t2
          /\ thr[t1].pin = "stop_pin" /\ thr[t1].pc = "trig_lo"
          /\ thr[t2].pin = "stop_pin" /\ thr[t2].pc = "trig_lo"
    /\ pins["open_pin"] = IdleLevel /\ pins["close_pin"] = IdleLevel

\* C20: in every quiescent state (no timer pending, no callback and no
\* command executing) the position is exactly 0 or exactly 100.
C20_RestAtEndpoints == Quiescent => position \in {0, 100}

====
